---- MODULE Spec2Model ----
(***************************************************************************)
(* ZooKeeperConfig (src/src/config.py): assembly of zookeeper.properties,  *)
(* recovery of the dynamicConfigFile pointer from the deployed file, the   *)
(* static/dynamic filter and the JAAS configuration.                       *)
(*                                                                         *)
(* Text is a sequence of tokens.  A token stands for a run of characters   *)
(* that the code never looks inside ("initLimit", "=", "true", a path      *)
(* segment); "\n" is the line break.  A line is a text without "\n".       *)
(* Python's substring test  needle in line  is the occurrence of the       *)
(* needle token in the line.  "clientPort" is no substring of              *)
(* "secureClientPort" (the test is case sensitive), so the two are         *)
(* different tokens.                                                       *)
(***************************************************************************)
EXTENDS Integers, Sequences, FiniteSets, TLC

VARIABLES
    config,      \* charm.config: the three tuning values
    tls,         \* charm.tls: enabled, upgrading, keystore_password
    quorum,      \* charm.cluster.quorum
    deployed,    \* the zookeeper.properties file in the container
    assigned,    \* the service has replaced the pointer line at least once
    app_data,    \* cluster.data[charm.app]: the shared peer databag
    relations,   \* charm.model.relations[REL_NAME]: ids of the client relations
    jaas_file,   \* the zookeeper-jaas.cfg file in the container
    arg,         \* the list handed to build_static_properties
    ret,         \* the list build_static_properties returned
    last         \* the handler that ran last, and what it saw

vars == <<config, tls, quorum, deployed, assigned, app_data, relations,
          jaas_file, arg, ret, last>>

-----------------------------------------------------------------------------
(* Bounds and input sets *)

MaxRevision == 1
MaxClients == 2
MaxLen == 3

TuningKeys == {"init-limit", "sync-limit", "tick-time"}
\* the values an operator may give a tuning option: a valid one and a
\* non-positive one
TuningValues(key) == IF key = "sync-limit" THEN {-1, 5} ELSE {0, 5}
QuorumModes == {"non-ssl", "ssl"}
Revisions == 1..MaxRevision

-----------------------------------------------------------------------------
(* Python strings and lists *)

NL == "\n"

None == "<None>"

\* f"{value}": None is formatted as the text None
Format(value) == IF value = None THEN "None" ELSE value

\* dict.get(key, None)
get(data, key) == IF key \in DOMAIN data THEN data[key] ELSE None

\* the position of the first line break of text from position start on,
\* Len(text) + 1 when there is none
next_break(text, start) ==
    CHOOSE k \in start..(Len(text) + 1) :
        /\ k = Len(text) + 1 \/ text[k] = NL
        /\ \A j \in start..(k - 1) : text[j] # NL

RECURSIVE pieces(_, _)
\* the pieces of text from position start on
pieces(text, start) ==
    LET i == next_break(text, start)
    IN IF i > Len(text) THEN <<SubSeq(text, start, Len(text))>>
       ELSE <<SubSeq(text, start, i - 1)>> \o pieces(text, i + 1)

\* str.split("\n"): the pieces between line breaks, empty pieces included
split(text) == pieces(text, 1)

\* str.splitlines(): as split, but a final line break opens no empty last line
splitlines(text) ==
    LET parts == split(text)
    IN IF parts[Len(parts)] = <<>>
       THEN SubSeq(parts, 1, Len(parts) - 1)
       ELSE parts

RECURSIVE join(_)
\* "\n".join(lines)
join(lines) ==
    IF lines = <<>> THEN <<>>
    ELSE IF Len(lines) = 1 THEN lines[1]
    ELSE lines[1] \o <<NL>> \o join(Tail(lines))

\* needle in line
Contains(needle, line) == \E i \in 1..Len(line) : line[i] = needle

\* the text of a line before its first "=", <<>> for a line without "="
Key(line) ==
    IF Contains("=", line)
    THEN LET i == CHOOSE k \in 1..Len(line) :
                     line[k] = "=" /\ \A j \in 1..(k - 1) : line[j] # "="
         IN SubSeq(line, 1, i - 1)
    ELSE <<>>

Range(list) == {list[i] : i \in 1..Len(list)}

-----------------------------------------------------------------------------
(* Module constants *)

DEFAULT_PROPERTIES ==
    <<NL, "syncEnabled", "=", "true",
      NL, "maxClientCnxns", "=", "60",
      NL, "minSessionTimeout", "=", "4000",
      NL, "maxSessionTimeout", "=", "40000",
      NL, "autopurge.snapRetainCount", "=", "3",
      NL, "autopurge.purgeInterval", "=", "0",
      NL, "reconfigEnabled", "=", "true",
      NL, "standaloneEnabled", "=", "false",
      NL, "4lw.commands.whitelist", "=", "mntr,srvr",
      NL, "DigestAuthenticationProvider.digestAlg", "=", "SHA3-256",
      NL, "quorum.auth.enableSasl", "=", "true",
      NL, "quorum.auth.learnerRequireSasl", "=", "true",
      NL, "quorum.auth.serverRequireSasl", "=", "true",
      NL, "authProvider.sasl", "=",
          "org.apache.zookeeper.server.auth.SASLAuthenticationProvider",
      NL, "audit.enable", "=", "true">>

TLS_PROPERTIES ==
    <<NL, "secureClientPort", "=", "2182",
      NL, "ssl.clientAuth", "=", "none",
      NL, "ssl.quorum.clientAuth", "=", "none",
      NL, "ssl.client.enable", "=", "true",
      NL, "clientCnxnSocket", "=", "org.apache.zookeeper.ClientCnxnSocketNetty",
      NL, "serverCnxnFactory", "=",
          "org.apache.zookeeper.server.NettyServerCnxnFactory",
      NL, "ssl.quorum.hostnameVerification", "=", "false",
      NL, "ssl.hostnameVerification", "=", "false",
      NL, "ssl.trustStore.type", "=", "JKS",
      NL, "ssl.keyStore.type", "=", "PKCS12",
      NL>>

\* DEFAULT_PROPERTIES.split("\n")
DEFAULT_LINES == split(DEFAULT_PROPERTIES)

\* TLS_PROPERTIES.split("\n")
TLS_LINES == split(TLS_PROPERTIES)

\* charm.config['data-dir']
data_dir == "/var/lib/zookeeper"

default_config_path == <<data_dir, "/config">>
dynamic_filepath == default_config_path \o <<"/zookeeper-dynamic.properties">>
keystore_filepath == default_config_path \o <<"/keystore.p12">>
truststore_filepath == default_config_path \o <<"/truststore.jks">>

\* the charm as ZooKeeperConfig reads it
charm == [config |-> config, tls |-> tls, quorum |-> quorum]

-----------------------------------------------------------------------------
(* The container's files *)

NoFile == [status |-> "missing", content |-> <<>>]

\* utils.pull: the text of the file, or PathError when it cannot be read
pull(container) ==
    IF container.status = "present"
    THEN [raised |-> "none", value |-> container.content]
    ELSE [raised |-> "PathError", value |-> <<>>]

\* utils.push: the file is replaced by content
push(content) == [status |-> "present", content |-> content]

DefaultPointer ==
    <<"dynamicConfigFile", "=">> \o default_config_path
        \o <<"/zookeeper-dynamic.properties">>

-----------------------------------------------------------------------------
(* ZooKeeperConfig *)

Returned(value) == [raised |-> "none", value |-> value]
Raised(exception) == [raised |-> exception, value |-> <<>>]

\* the read is not guarded: PathError leaves the property
current_dynamic_config_file_unguarded(container) ==
    LET pulled == pull(container)
        matches == SelectSeq(splitlines(pulled.value),
                             LAMBDA p : Contains("dynamicConfigFile", p))
    IN IF pulled.raised # "none" THEN Raised(pulled.raised)
       ELSE IF matches # <<>> THEN Returned(matches[1])
       ELSE Returned(DefaultPointer)

\* the pointer is generated afresh and the deployed file is not consulted
current_dynamic_config_file_regenerated(container) ==
    Returned(DefaultPointer)

current_dynamic_config_file(container) ==
    LET pulled == pull(container)
        current_properties == splitlines(pulled.value)
        matches == SelectSeq(current_properties,
                             LAMBDA p : Contains("dynamicConfigFile", p))
    IN IF pulled.raised = "PathError" THEN Returned(DefaultPointer)
       ELSE IF pulled.raised # "none" THEN Raised(pulled.raised)
       ELSE IF matches # <<>> THEN Returned(matches[1])
       ELSE Returned(DefaultPointer)

\* the tuning options, the defaults, the directories and the pointer line
base_properties(ch, pointer) ==
    << <<"initLimit", "=", ToString(ch.config["init-limit"])>>,
       <<"syncLimit", "=", ToString(ch.config["sync-limit"])>>,
       <<"tickTime", "=", ToString(ch.config["tick-time"])>> >>
    \o DEFAULT_LINES
    \o << <<"dataDir", "=">> \o default_config_path \o <<"/data">>,
          <<"dataLogDir", "=">> \o default_config_path \o <<"/log">>,
          pointer >>

\* the fixed TLS properties are added after the stores, not before them
tls_properties_stores_first(ch) ==
    IF ch.tls.enabled
    THEN << <<"ssl.quorum.keyStore.location", "=">> \o keystore_filepath,
            <<"ssl.quorum.trustStore.location", "=">> \o truststore_filepath,
            <<"ssl.keyStore.location", "=">> \o keystore_filepath,
            <<"ssl.trustStore.location", "=">> \o truststore_filepath,
            <<"ssl.keyStore.location", "=">> \o keystore_filepath,
            <<"ssl.quorum.keyStore.password", "=",
              Format(ch.tls.keystore_password)>>,
            <<"ssl.quorum.trustStore.password", "=",
              Format(ch.tls.keystore_password)>>,
            <<"ssl.keyStore.password", "=",
              Format(ch.tls.keystore_password)>>,
            <<"ssl.trustStore.password", "=",
              Format(ch.tls.keystore_password)>> >>
         \o TLS_LINES
    ELSE <<>>

\* what  if self.charm.tls.enabled  adds
tls_properties(ch) ==
    IF ch.tls.enabled
    THEN TLS_LINES
         \o << <<"ssl.quorum.keyStore.location", "=">> \o keystore_filepath,
               <<"ssl.quorum.trustStore.location", "=">> \o truststore_filepath,
               <<"ssl.keyStore.location", "=">> \o keystore_filepath,
               <<"ssl.trustStore.location", "=">> \o truststore_filepath,
               <<"ssl.keyStore.location", "=">> \o keystore_filepath,
               <<"ssl.quorum.keyStore.password", "=",
                 Format(ch.tls.keystore_password)>>,
               <<"ssl.quorum.trustStore.password", "=",
                 Format(ch.tls.keystore_password)>>,
               <<"ssl.keyStore.password", "=",
                 Format(ch.tls.keystore_password)>>,
               <<"ssl.trustStore.password", "=",
                 Format(ch.tls.keystore_password)>> >>
    ELSE <<>>

PortUnification == <<"portUnification", "=", "true">>
SslQuorum == <<"sslQuorum", "=", "true">>

\* sslQuorum follows tls.enabled instead of the quorum mode
transition_flags_by_enabled(ch) ==
    (IF ch.tls.upgrading THEN <<PortUnification>> ELSE <<>>)
    \o (IF ch.tls.enabled THEN <<SslQuorum>> ELSE <<>>)

\* what  if self.charm.tls.upgrading  and  if self.charm.cluster.quorum == "ssl"
\* add
transition_flags(ch) ==
    (IF ch.tls.upgrading THEN <<PortUnification>> ELSE <<>>)
    \o (IF ch.quorum = "ssl" THEN <<SslQuorum>> ELSE <<>>)

\* the flags are added before the TLS properties
zookeeper_properties_flags_early(ch, container) ==
    LET pointer == current_dynamic_config_file(container)
    IN IF pointer.raised # "none" THEN Raised(pointer.raised)
       ELSE Returned(base_properties(ch, pointer.value)
                     \o transition_flags(ch)
                     \o tls_properties(ch))

zookeeper_properties(ch, container) ==
    LET pointer == current_dynamic_config_file(container)
    IN IF pointer.raised # "none" THEN Raised(pointer.raised)
       ELSE Returned(base_properties(ch, pointer.value)
                     \o tls_properties(ch)
                     \o transition_flags(ch))

build_static_properties(properties) ==
    SelectSeq(properties,
              LAMBDA prop : ~Contains("clientPort", prop)
                            /\ ~Contains("secureClientPort", prop))

static_properties(ch, container) ==
    LET properties == zookeeper_properties(ch, container)
    IN IF properties.raised # "none" THEN properties
       ELSE Returned(build_static_properties(properties.value))

\* the key of a client relation's password in the peer databag
username(relation) == "relation-" \o ToString(relation)

\* one line per client relation whose password is set
jaas_users(data, client_relations) ==
    LET user(relation) ==
            <<"user_", username(relation), "=\"",
              get(data, username(relation)), "\"">>
        resolved == SelectSeq(client_relations,
                              LAMBDA r : get(data, username(r)) \notin {None, ""})
    IN [i \in 1..Len(resolved) |-> user(resolved[i])]

\* the text of the JAAS file (the indentation of the template is left out)
jaas_config(data, client_relations) ==
    LET sync_password == get(data, "sync-password")
        super_password == get(data, "super-password")
        users == join(jaas_users(data, client_relations))
        module == "org.apache.zookeeper.server.auth.DigestLoginModule required"
    IN <<NL, "QuorumServer {",
         NL, module,
         NL, "user_sync=\"", Format(sync_password), "\";",
         NL, "};",
         NL, "QuorumLearner {",
         NL, module,
         NL, "username=\"sync\"",
         NL, "password=\"", Format(sync_password), "\";",
         NL, "};",
         NL, "Server {",
         NL, module,
         NL>> \o users \o
       <<NL, "user_super=\"", Format(super_password), "\";",
         NL, "};",
         NL>>

-----------------------------------------------------------------------------
(* Handlers *)

Idle == [op |-> "none", read |-> "none", raised |-> "none", pushed |-> FALSE]

\* what a read of the deployed file meets
ReadOutcome(container) ==
    CASE container.status = "present" -> "ok"
      [] container.status = "missing" -> "not-found"
      [] OTHER -> "permission-denied"

\* push(container, content="\n".join(properties), path=properties_filepath),
\* which is not reached when building the properties raised
push_properties(properties) ==
    /\ last' = [op |-> "set_zookeeper_properties",
                read |-> ReadOutcome(deployed),
                raised |-> properties.raised,
                pushed |-> properties.raised = "none"]
    /\ deployed' = IF properties.raised = "none"
                   THEN push(join(properties.value))
                   ELSE deployed

\* the list is filtered by build_static_properties before it is written
set_zookeeper_properties_static ==
    /\ push_properties(static_properties(charm, deployed))
    /\ UNCHANGED <<config, tls, quorum, assigned, app_data, relations,
                   jaas_file, arg, ret>>

set_zookeeper_properties ==
    /\ push_properties(zookeeper_properties(charm, deployed))
    /\ UNCHANGED <<config, tls, quorum, assigned, app_data, relations,
                   jaas_file, arg, ret>>

set_jaas_config ==
    /\ jaas_file' = push(jaas_config(app_data, relations))
    /\ last' = [op |-> "set_jaas_config", read |-> "none", raised |-> "none",
                pushed |-> TRUE]
    /\ UNCHANGED <<config, tls, quorum, deployed, assigned, app_data,
                   relations, arg, ret>>

\* a call of the static method on the list arg
call_build_static_properties ==
    /\ last.op # "build_static_properties"
    /\ ret' = build_static_properties(arg)
    /\ last' = [op |-> "build_static_properties", read |-> "none",
                raised |-> "none", pushed |-> FALSE]
    /\ UNCHANGED <<config, tls, quorum, deployed, assigned, app_data,
                   relations, jaas_file, arg>>

-----------------------------------------------------------------------------
(* The environment of the properties file: the operator's configuration,   *)
(* the TLS and cluster state, and the coordination service                  *)

\* a change of init-limit, sync-limit or tick-time
config_changed ==
    \E key \in TuningKeys : \E value \in TuningValues(key) :
        /\ config[key] # value
        /\ config' = [config EXCEPT ![key] = value]
        /\ last' = Idle
        /\ UNCHANGED <<tls, quorum, deployed, assigned, app_data, relations,
                       jaas_file, arg, ret>>

\* charm.tls.enabled changes
tls_enabled_changed ==
    /\ tls' = [tls EXCEPT !.enabled = ~tls.enabled]
    /\ last' = Idle
    /\ UNCHANGED <<config, quorum, deployed, assigned, app_data, relations,
                   jaas_file, arg, ret>>

\* charm.tls.upgrading changes
tls_upgrading_changed ==
    /\ tls' = [tls EXCEPT !.upgrading = ~tls.upgrading]
    /\ last' = Idle
    /\ UNCHANGED <<config, quorum, deployed, assigned, app_data, relations,
                   jaas_file, arg, ret>>

\* charm.cluster.quorum changes
quorum_changed ==
    \E mode \in QuorumModes :
        /\ quorum # mode
        /\ quorum' = mode
        /\ last' = Idle
        /\ UNCHANGED <<config, tls, deployed, assigned, app_data, relations,
                       jaas_file, arg, ret>>

RevisionedPointer(revision) ==
    <<"dynamicConfigFile", "=">> \o dynamic_filepath
        \o <<".", ToString(revision)>>

IsPointer(line) == Key(line) = <<"dynamicConfigFile">>

IsDynamicOption(line) ==
    Key(line) = <<"clientPort">> \/ Key(line) = <<"secureClientPort">>

\* The lines of the file after the service has recorded a new version of
\* its dynamic configuration: the revisioned pointer stands in the place of
\* the pointer line, or the file is written anew without the dynamic
\* options and with the pointer as last line.
Reconfigured(lines, pointer, anew) ==
    IF anew
    THEN SelectSeq(lines, LAMBDA l : ~IsPointer(l) /\ ~IsDynamicOption(l))
             \o <<pointer>>
    ELSE [i \in 1..Len(lines) |->
             IF IsPointer(lines[i]) THEN pointer ELSE lines[i]]

HasPointer(lines) == \E i \in 1..Len(lines) : IsPointer(lines[i])

\* the service writes the file whose lines were lines
reconfigure(lines) ==
    \E revision \in Revisions, anew \in BOOLEAN :
        /\ anew \/ HasPointer(lines)
        /\ deployed' = push(join(Reconfigured(lines, RevisionedPointer(revision),
                                              anew)))

service_reconfig ==
    /\ deployed.status = "present"
    /\ reconfigure(splitlines(deployed.content))
    /\ deployed' # deployed
    /\ assigned' = TRUE
    /\ last' = Idle
    /\ UNCHANGED <<config, tls, quorum, app_data, relations, jaas_file,
                   arg, ret>>

-----------------------------------------------------------------------------
(* The environment of the JAAS file: the peer databag and the client       *)
(* relations                                                                *)

Clients == 1..MaxClients

password_of(key) == "pw-" \o key

\* the leader stores the password of a charm user (sync, super)
charm_password_set ==
    \E key \in {"sync-password", "super-password"} :
        /\ key \notin DOMAIN app_data
        /\ app_data' = [k \in DOMAIN app_data \cup {key} |->
                            IF k = key THEN password_of(key) ELSE app_data[k]]
        /\ last' = Idle
        /\ UNCHANGED <<config, tls, quorum, deployed, assigned, relations,
                       jaas_file, arg, ret>>

\* a client application relates
client_relation_joined ==
    \E relation \in Clients :
        /\ relation \notin Range(relations)
        /\ relations' = Append(relations, relation)
        /\ last' = Idle
        /\ UNCHANGED <<config, tls, quorum, deployed, assigned, app_data,
                       jaas_file, arg, ret>>

\* the leader stores the password generated for a client relation
client_password_set ==
    \E relation \in Range(relations) :
        /\ username(relation) \notin DOMAIN app_data
        /\ app_data' = [k \in DOMAIN app_data \cup {username(relation)} |->
                            IF k = username(relation)
                            THEN password_of(username(relation))
                            ELSE app_data[k]]
        /\ last' = Idle
        /\ UNCHANGED <<config, tls, quorum, deployed, assigned, relations,
                       jaas_file, arg, ret>>

\* a client application leaves: its relation and its password go
client_relation_broken ==
    \E relation \in Range(relations) :
        /\ relations' = SelectSeq(relations, LAMBDA r : r # relation)
        /\ app_data' = [k \in DOMAIN app_data \ {username(relation)} |->
                            app_data[k]]
        /\ last' = Idle
        /\ UNCHANGED <<config, tls, quorum, deployed, assigned, jaas_file,
                       arg, ret>>

-----------------------------------------------------------------------------
(* Specification of the properties file *)

\* a file that was left in place with no pointer line
KeylessFile ==
    push(join(<< <<"dataDir", "=", "/tmp/zookeeper">>,
                 <<"clientPort", "=", "2181">>,
                 <<"maxClientCnxns", "=", "0">> >>))

InitAuth ==
    /\ app_data = <<>>
    /\ relations = <<>>
    /\ jaas_file = NoFile

InitPartition ==
    /\ arg = <<>>
    /\ ret = <<>>

Init ==
    /\ config = [key \in TuningKeys |-> 5]
    /\ tls = [enabled |-> FALSE, upgrading |-> FALSE,
              keystore_password |-> "keystore-password"]
    /\ quorum = "non-ssl"
    /\ deployed \in {NoFile, [NoFile EXCEPT !.status = "unreadable"], KeylessFile}
    /\ assigned = FALSE
    /\ last = Idle
    /\ InitAuth
    /\ InitPartition

Next ==
    \/ set_zookeeper_properties
    \/ config_changed
    \/ tls_enabled_changed
    \/ tls_upgrading_changed
    \/ quorum_changed
    \/ service_reconfig

Spec == Init /\ [][Next]_vars

-----------------------------------------------------------------------------
(* Specification of the JAAS file *)

InitProperties ==
    /\ config = [key \in TuningKeys |-> 5]
    /\ tls = [enabled |-> FALSE, upgrading |-> FALSE,
              keystore_password |-> "keystore-password"]
    /\ quorum = "non-ssl"
    /\ deployed = NoFile
    /\ assigned = FALSE

InitJaas ==
    /\ InitProperties
    /\ InitAuth
    /\ InitPartition
    /\ last = Idle

NextJaas ==
    \/ set_jaas_config
    \/ charm_password_set
    \/ client_relation_joined
    \/ client_password_set
    \/ client_relation_broken

SpecJaas == InitJaas /\ [][NextJaas]_vars

-----------------------------------------------------------------------------
(* Specification of the static/dynamic filter *)

\* lines a property list may hold: the two dynamic options, a property
\* whose value holds the text clientPort, another property, an empty line
Lines ==
    { <<"clientPort", "=", "2181">>,
      <<"secureClientPort", "=", "2182">>,
      <<"dataDir", "=", "/srv/", "clientPort", "/data">>,
      <<"maxClientCnxns", "=", "60">>,
      <<>> }

Lists == UNION {[1..n -> Lines] : n \in 0..MaxLen}

InitFilter ==
    /\ InitProperties
    /\ InitAuth
    /\ arg \in Lists
    /\ ret = <<>>
    /\ last = Idle

NextFilter == call_build_static_properties

SpecFilter == InitFilter /\ [][NextFilter]_vars

-----------------------------------------------------------------------------
(* Properties *)

Returns(properties) == properties.raised = "none"

\* the list zookeeper_properties returns in the current state
Assembled == zookeeper_properties(charm, deployed).value

\* the lines of the deployed file
DeployedLines == splitlines(deployed.content)

JustWritten == last.op = "set_zookeeper_properties" /\ last.pushed

Stages ==
    {"PLAINTEXT", "ADD_PORT_UNIFICATION", "ADD_SSL_QUORUM",
     "REMOVE_PORT_UNIFICATION", "TLS", "ADD_PORT_UNIFICATION'",
     "REMOVE_SSL_QUORUM", "REMOVE_PORT_UNIFICATION'"}

\* The upgrading and quorum fields in each stage of the two migrations:
\* a stage sets one field and a rolling restart follows.
\*   non-ssl -> ssl: add portUnification, add sslQuorum, remove portUnification
\*   ssl -> non-ssl: add portUnification, remove sslQuorum, remove portUnification
StageInputs(stage) ==
    CASE stage = "PLAINTEXT" -> [upgrading |-> FALSE, quorum |-> "non-ssl"]
      [] stage = "ADD_PORT_UNIFICATION" -> [upgrading |-> TRUE, quorum |-> "non-ssl"]
      [] stage = "ADD_SSL_QUORUM" -> [upgrading |-> TRUE, quorum |-> "ssl"]
      [] stage = "REMOVE_PORT_UNIFICATION" -> [upgrading |-> FALSE, quorum |-> "ssl"]
      [] stage = "TLS" -> [upgrading |-> FALSE, quorum |-> "ssl"]
      [] stage = "ADD_PORT_UNIFICATION'" -> [upgrading |-> TRUE, quorum |-> "ssl"]
      [] stage = "REMOVE_SSL_QUORUM" -> [upgrading |-> TRUE, quorum |-> "non-ssl"]
      [] stage = "REMOVE_PORT_UNIFICATION'" -> [upgrading |-> FALSE, quorum |-> "non-ssl"]

InStage(stage) ==
    /\ tls.upgrading = StageInputs(stage).upgrading
    /\ quorum = StageInputs(stage).quorum

\* the flags the claim C1 gives for each stage
ClaimedFlags(stage) ==
    CASE stage \in {"ADD_PORT_UNIFICATION", "REMOVE_SSL_QUORUM"} -> {PortUnification}
      [] stage \in {"ADD_SSL_QUORUM", "ADD_PORT_UNIFICATION'"} ->
             {PortUnification, SslQuorum}
      [] stage \in {"REMOVE_PORT_UNIFICATION", "TLS"} -> {SslQuorum}
      [] stage \in {"PLAINTEXT", "REMOVE_PORT_UNIFICATION'"} -> {}

Flags == {PortUnification, SslQuorum}

FlagsAre(properties, flags) ==
    /\ Returns(properties)
    /\ Range(properties.value) \cap Flags = flags

\* C1: in every stage of either migration and in both stable states, the
\* transition flags that the list returned by zookeeper_properties contains
\* are exactly those of the stage: portUnification=true in the stages with
\* port unification added, sslQuorum=true in the stages with an ssl quorum.
C1_FlagsByStage ==
    \A stage \in Stages :
        InStage(stage) =>
            FlagsAre(zookeeper_properties(charm, deployed), ClaimedFlags(stage))

C1_Witness ==
    /\ JustWritten
    /\ InStage("ADD_SSL_QUORUM")
    /\ tls.enabled
    /\ FlagsAre(Returned(DeployedLines), Flags)

\* the charm with no migration under way and a plaintext quorum
Unflagged == [charm EXCEPT !.tls.upgrading = FALSE, !.quorum = "non-ssl"]

FlagsLast(list) ==
    \A i \in 1..Len(list) :
        list[i] \in Flags => \A j \in i..Len(list) : list[j] \in Flags

WithoutFlags(list) == SelectSeq(list, LAMBDA line : line \notin Flags)

\* C3: in the list returned by zookeeper_properties no line other than a
\* transition flag follows a transition flag, and the list without its flags
\* is the list returned for the same inputs with no flag set.
C3_FlagsLastAndAdditive ==
    /\ FlagsLast(Assembled)
    /\ WithoutFlags(Assembled) = zookeeper_properties(Unflagged, deployed).value

EndsWith(list, tail) ==
    /\ Len(list) >= Len(tail)
    /\ SubSeq(list, Len(list) - Len(tail) + 1, Len(list)) = tail

C3_Witness ==
    /\ JustWritten
    /\ tls.enabled /\ tls.upgrading /\ quorum = "ssl"
    /\ EndsWith(DeployedLines, <<PortUnification, SslQuorum>>)

\* C7: when the deployed file is missing, is unreadable or holds no line with
\* the key dynamicConfigFile, current_dynamic_config_file returns the default
\* pointer dynamicConfigFile=<config path>/zookeeper-dynamic.properties and
\* raises nothing.
C7_DefaultWithoutPointer ==
    (deployed.status # "present" \/ ~HasPointer(DeployedLines)) =>
        current_dynamic_config_file(deployed)
            = [raised |-> "none",
               value |-> <<"dynamicConfigFile", "=", data_dir, "/config",
                           "/zookeeper-dynamic.properties">>]

C7_Witness ==
    /\ last.op = "set_zookeeper_properties"
    /\ last.read = "permission-denied"
    /\ last.pushed
    /\ SelectSeq(DeployedLines, IsPointer) = <<DefaultPointer>>

\* the lines of a file that carry the key dynamicConfigFile
PointerLines(file) == SelectSeq(splitlines(file.content), IsPointer)

Carried(before, after) ==
    /\ before # <<>>
    /\ after = <<before[1]>>
    /\ before[1] # <<"dynamicConfigFile", "=", data_dir, "/config",
                     "/zookeeper-dynamic.properties">>

KeysOf(list) == {Key(list[i]) : i \in 1..Len(list)}

DynamicOptions(list) == SelectSeq(list, IsDynamicOption)

\* C4 as stated: the file written by set_zookeeper_properties holds no line
\* whose key is clientPort or secureClientPort.
C4_NoDynamicOptionWritten ==
    JustWritten => DynamicOptions(DeployedLines) = <<>>

\* C4 amended: the file written by set_zookeeper_properties holds the list
\* unfiltered: no line with the key clientPort, and the line
\* secureClientPort=2182 exactly when TLS is enabled.
C4_SecurePortWrittenWithTls ==
    JustWritten =>
        DynamicOptions(DeployedLines)
            = IF tls.enabled THEN << <<"secureClientPort", "=", "2182">> >>
                             ELSE <<>>

C4_Witness ==
    /\ JustWritten
    /\ tls.enabled
    /\ <<"secureClientPort", "=", "2182">> \in Range(DeployedLines)

NonPositiveTuning == \E key \in TuningKeys : config[key] <= 0

\* C5: when a tuning option is zero or negative, set_zookeeper_properties
\* fails with InvalidConfig and writes no file.
C5_InvalidConfigRejected ==
    (last.op = "set_zookeeper_properties" /\ NonPositiveTuning) =>
        (last.raised = "InvalidConfig" /\ ~last.pushed)

\* the keys the assembled list must carry
RequiredKeys(ch) ==
    {<<"initLimit">>, <<"syncLimit">>, <<"tickTime">>, <<"dataDir">>,
     <<"dataLogDir">>, <<"dynamicConfigFile">>}
    \cup KeysOf(SelectSeq(DEFAULT_LINES, LAMBDA line : line # <<>>))
    \cup (IF ch.tls.enabled
          THEN KeysOf(SelectSeq(TLS_LINES, LAMBDA line : line # <<>>))
               \cup {<<"ssl.quorum.keyStore.location">>,
                     <<"ssl.quorum.trustStore.location">>,
                     <<"ssl.keyStore.location">>,
                     <<"ssl.trustStore.location">>,
                     <<"ssl.quorum.keyStore.password">>,
                     <<"ssl.quorum.trustStore.password">>,
                     <<"ssl.keyStore.password">>,
                     <<"ssl.trustStore.password">>}
          ELSE {})

OneLinePerKey(list, keys) ==
    /\ keys \subseteq KeysOf(list)
    /\ \A i, j \in 1..Len(list) :
           (i # j /\ Key(list[i]) # <<>>) => Key(list[i]) # Key(list[j])

\* C8: with positive tuning values the list returned by zookeeper_properties
\* carries every required key and no key on two lines.
C8_OneLinePerKey ==
    ~NonPositiveTuning => OneLinePerKey(Assembled, RequiredKeys(charm))

FixedPoint(properties, file_lines) ==
    /\ Returns(properties)
    /\ properties.value = file_lines
    /\ join(properties.value) = deployed.content
    /\ static_properties(charm, deployed).value
           = build_static_properties(file_lines)

\* C10: right after set_zookeeper_properties has written the file, the list
\* zookeeper_properties returns is line for line the content of the file, a
\* second write would write the same text, and static_properties is
\* build_static_properties of the lines of the file.
C10_RewriteIsFixedPoint ==
    JustWritten =>
        FixedPoint(zookeeper_properties(charm, deployed), DeployedLines)

C10_Witness ==
    /\ JustWritten
    /\ assigned
    /\ tls.enabled
    /\ ~tls.upgrading
    /\ quorum = "non-ssl"
    /\ Assembled = DeployedLines

AbsentCredential ==
    get(app_data, "sync-password") = None \/ get(app_data, "super-password") = None

\* C6: when the sync or the super password is absent, set_jaas_config fails
\* with MissingCredential and pushes no file; no file is written with the
\* placeholder None in the place of a password.
C6_MissingCredentialRejected ==
    (last.op = "set_jaas_config" /\ AbsentCredential) =>
        /\ last.raised = "MissingCredential"
        /\ ~last.pushed
        /\ ~Contains("None", jaas_file.content)

KeyFilter(list) == SelectSeq(list, LAMBDA line : ~IsDynamicOption(line))

\* C9: build_static_properties returns the lines of its argument whose key
\* is neither clientPort nor secureClientPort, in their order.
C9_FilterOnKeys ==
    last.op = "build_static_properties" => ret = KeyFilter(arg)

====
